---- MODULE Spec2Model ----
(***************************************************************************)
(* State-machine model of two widgets of the blueprint repository:         *)
(*   - Tabs            (packages/core/src/components/tabs2/tabs.tsx)       *)
(*   - DateRangeInput  (packages/datetime/src/dateRangeInput.tsx)          *)
(* Each widget has its own specification (TabsSpec, DateSpec); the         *)
(* variables of the other widget stay at their initial value.              *)
(***************************************************************************)
EXTENDS Integers, Sequences, FiniteSets, TLC

VARIABLES
    \* ---- Tabs ----
    children,               \* props.children, in declaration order
    defaultSelectedTabId,   \* props.defaultSelectedTabId (None when absent)
    tabsPc,                 \* "new" | "constructed" | "mounted" | "error"
    selectedTabId,          \* state.selectedTabId
    indicatorWrapperStyle,  \* state.indicatorWrapperStyle (geometry of a tab id)
    focusedChild,           \* position of the child holding document.activeElement
    tabsCalls,              \* props.onChange invocations made by the last event
    tabsMoves,              \* moveSelectionIndicator calls made by the last event
    tabsEvent,              \* the last event delivered to the widget
    \* ---- DateRangeInput ----
    value,                  \* props.value (NoRange when undefined: uncontrolled)
    defaultValue,           \* props.defaultValue (NoRange when undefined)
    isOpen,                 \* state.isOpen
    isInputFocused,         \* state.isStartInputFocused / isEndInputFocused
    inputString,            \* state.startInputString / endInputString
    selectedValue,          \* state.selectedStart / selectedEnd
    driCalls,               \* onChange / onError invocations made by the last event
    driEvent                \* the last event delivered to the widget

tabsVars == <<children, defaultSelectedTabId, tabsPc, selectedTabId,
              indicatorWrapperStyle, focusedChild, tabsCalls, tabsMoves, tabsEvent>>

driVars == <<value, defaultValue, isOpen, isInputFocused, inputString,
             selectedValue, driCalls, driEvent>>

vars == <<tabsVars, driVars>>

(***************************************************************************)
(*                                  Tabs                                   *)
(***************************************************************************)

\* Largest number of children declared inside <Tabs>.
MaxChildren == 3

\* "no id": null / undefined TabId, and "no element" for focus.
None == 0

\* Tab ids are opaque to the widget (only compared with === and put in a
\* selector): the <Tab> declared at position i carries the id IdAt(i), which
\* differs from every position's index in getTabChildren and from None.
IdAt(i) == 2 * i + 1

TabIds == {IdAt(i) : i \in 1 .. MaxChildren}

\* An id that no declared <Tab> can carry.
UndeclaredId == IdAt(0) + 1

\* Keys.* key codes used by the handlers.
ENTER == 13
SPACE == 32
ARROW_LEFT == 37
ARROW_UP == 38
ARROW_RIGHT == 39

KeyCodes == {ENTER, SPACE, ARROW_LEFT, ARROW_UP, ARROW_RIGHT}

\* A child is a <Tab id disabled> element or any other node.
OtherChild == [isTab |-> FALSE, id |-> None, disabled |-> FALSE]

TabChild(id, disabled) == [isTab |-> TRUE, id |-> id, disabled |-> disabled]

\* The children lists: every mix of enabled tabs, disabled tabs and other nodes.
ChildrenLists ==
    UNION {{cs \in [1 .. n -> {OtherChild} \cup {TabChild(id, d) : id \in TabIds, d \in BOOLEAN}] :
               \A i \in 1 .. n : cs[i].isTab => cs[i].id = IdAt(i)} :
           n \in 0 .. MaxChildren}

isTab(child) == child.isTab

\* Filters props.children to only <Tab>s.
getTabChildren == SelectSeq(children, isTab)

DeclaredIds == {children[i].id : i \in {j \in 1 .. Len(children) : isTab(children[j])}}

\* The .pt-tab elements of the tab list in document order: one TabTitle per
\* <Tab> child, carrying data-tab-id and aria-disabled.
TabElements ==
    LET Pos(i) == [pos |-> i, id |-> children[i].id,
                   ariaDisabled |-> IF children[i].disabled THEN "true" ELSE "false"]
        RECURSIVE Build(_)
        Build(i) == IF i > Len(children) THEN <<>>
                    ELSE IF isTab(children[i]) THEN <<Pos(i)>> \o Build(i + 1)
                    ELSE Build(i + 1)
    IN  Build(1)

getTabElements == IF tabsPc = "mounted" THEN TabElements ELSE <<>>

\* render() with the comparison of the `selected` prop negated.
TitleSelectedNegated(i) == children[i].id # selectedTabId

\* render(): the `selected` prop given to the TabTitle of the child at position i.
TitleSelected(i) == children[i].id = selectedTabId

SelectedTitles == {i \in 1 .. Len(children) : isTab(children[i]) /\ TitleSelected(i)}

\* indexOf on a sequence: 0-based index of the first match, -1 when absent.
IndexOfPos(els, p) ==
    IF \E k \in 1 .. Len(els) : els[k].pos = p
    THEN (CHOOSE k \in 1 .. Len(els) :
              els[k].pos = p /\ \A m \in 1 .. k - 1 : els[m].pos # p) - 1
    ELSE -1

isEventKeyCode(which, codes) == which \in codes

\* tabElement.query('.pt-tab[data-tab-id="<id>"]'): the element or None (null).
QueryTabById(id) ==
    IF \E k \in 1 .. Len(TabElements) : TabElements[k].id = id
    THEN id
    ELSE None

\* The constructor taking the first child instead of the first <Tab> child.
ConstructorFirstChild ==
    /\ tabsPc = "new"
    /\ IF defaultSelectedTabId = None
       THEN IF Len(children) = 0
            THEN /\ tabsPc' = "error"
                 /\ UNCHANGED selectedTabId
            ELSE /\ tabsPc' = "constructed"
                 /\ selectedTabId' = children[1].id
       ELSE /\ tabsPc' = "constructed"
            /\ selectedTabId' = defaultSelectedTabId
    /\ tabsCalls' = <<>>
    /\ tabsMoves' = 0
    /\ tabsEvent' = [type |-> "construct", arg |-> None]
    /\ UNCHANGED <<children, defaultSelectedTabId, indicatorWrapperStyle, focusedChild>>

\* Constructor: select the first tab in absence of a default.
\* getTabChildren()[0].props throws when there is no <Tab> child.
Constructor ==
    /\ tabsPc = "new"
    /\ IF defaultSelectedTabId = None
       THEN IF Len(getTabChildren) = 0
            THEN /\ tabsPc' = "error"
                 /\ UNCHANGED selectedTabId
            ELSE /\ tabsPc' = "constructed"
                 /\ selectedTabId' = getTabChildren[1].id
       ELSE /\ tabsPc' = "constructed"
            /\ selectedTabId' = defaultSelectedTabId
    /\ tabsCalls' = <<>>
    /\ tabsMoves' = 0
    /\ tabsEvent' = [type |-> "construct", arg |-> None]
    /\ UNCHANGED <<children, defaultSelectedTabId, indicatorWrapperStyle, focusedChild>>

\* Largest number of nested updates followed within one event.
MaxUpdates == 3

\* componentDidUpdate without its comparison of selectedTabId with prevState.
componentDidUpdateAlways(prevSelectedTabId, currentSelectedTabId) == TRUE

\* componentDidUpdate(_, prevState): whether it calls moveSelectionIndicator.
componentDidUpdate(prevSelectedTabId, currentSelectedTabId) ==
    currentSelectedTabId # prevSelectedTabId

\* The number of moveSelectionIndicator calls made by an update from
\* prevState.selectedTabId = prev to state.selectedTabId = cur and by the updates
\* that follow it: each call ends in setState({ indicatorWrapperStyle }), which
\* causes one more update with selectedTabId unchanged. Counting stops after
\* MaxUpdates updates.
UpdateMoves(prev, cur) ==
    LET RECURSIVE Moves(_, _)
        Moves(p, left) ==
            IF left = 0 THEN 0
            ELSE IF componentDidUpdate(p, cur) THEN 1 + Moves(cur, left - 1)
            ELSE 0
    IN  Moves(prev, MaxUpdates)

\* moveSelectionIndicator(): result for a given selected id: the style it stores,
\* or a thrown TypeError when the selected tab element does not exist.
MoveThrows(id) == QueryTabById(id) = None

\* componentDidMount(): moveSelectionIndicator().
ComponentDidMount ==
    /\ tabsPc = "constructed"
    /\ IF MoveThrows(selectedTabId)
       THEN /\ tabsPc' = "error"
            /\ UNCHANGED indicatorWrapperStyle
       ELSE /\ tabsPc' = "mounted"
            /\ indicatorWrapperStyle' = QueryTabById(selectedTabId)
    /\ tabsCalls' = <<>>
    /\ tabsMoves' = IF MoveThrows(selectedTabId)
                    THEN 1
                    ELSE 1 + UpdateMoves(selectedTabId, selectedTabId)
    /\ tabsEvent' = [type |-> "mount", arg |-> None]
    /\ UNCHANGED <<children, defaultSelectedTabId, selectedTabId, focusedChild>>

\* The parent renders the mounted component again with the same children: an
\* update in which the state is prevState, followed by componentDidUpdate.
PropsUpdate ==
    /\ tabsPc = "mounted"
    /\ tabsCalls' = <<>>
    /\ tabsMoves' = UpdateMoves(selectedTabId, selectedTabId)
    /\ tabsEvent' = [type |-> "update", arg |-> None]
    /\ UNCHANGED <<children, defaultSelectedTabId, tabsPc, selectedTabId,
                   indicatorWrapperStyle, focusedChild>>

\* The click handler without its `selectedTabId !== this.state.selectedTabId` test.
ClickHandlerUnguarded(id, type, arg) ==
    /\ tabsEvent' = [type |-> type, arg |-> arg]
    /\ tabsCalls' = <<[selectedTabId |-> id, prevSelectedTabId |-> selectedTabId]>>
    /\ selectedTabId' = id
    /\ tabsMoves' = 0
    /\ UNCHANGED <<indicatorWrapperStyle, tabsPc>>

\* The click handler of getTabClickHandler(id), followed by the update it causes
\* (componentDidUpdate, then the updates moveSelectionIndicator causes).
ClickHandler(id, type, arg) ==
    /\ tabsEvent' = [type |-> type, arg |-> arg]
    /\ IF id # selectedTabId
       THEN /\ tabsCalls' = <<[selectedTabId |-> id, prevSelectedTabId |-> selectedTabId]>>
            /\ selectedTabId' = id
            /\ tabsMoves' = UpdateMoves(selectedTabId, id)
            /\ IF MoveThrows(id)
               THEN /\ tabsPc' = "error"
                    /\ UNCHANGED indicatorWrapperStyle
               ELSE /\ indicatorWrapperStyle' = QueryTabById(id)
                    /\ UNCHANGED tabsPc
       ELSE /\ tabsCalls' = <<>>
            /\ tabsMoves' = 0
            /\ UNCHANGED <<selectedTabId, indicatorWrapperStyle, tabsPc>>

\* A click on the tab title of the child at position i.
TabClick(i) ==
    /\ tabsPc = "mounted"
    /\ isTab(children[i])
    /\ ClickHandler(children[i].id, "click", children[i].id)
    /\ UNCHANGED <<children, defaultSelectedTabId, focusedChild>>

\* The user moves DOM focus into the child at position p (None: outside the list).
MoveFocus(p) ==
    /\ tabsPc = "mounted"
    /\ p # focusedChild
    /\ focusedChild' = p
    /\ tabsCalls' = <<>>
    /\ tabsMoves' = 0
    /\ tabsEvent' = [type |-> "focus", arg |-> p]
    /\ UNCHANGED <<children, defaultSelectedTabId, tabsPc, selectedTabId,
                   indicatorWrapperStyle>>

\* document.activeElement.closest(".pt-tab"): the position of the tab title that
\* contains the focused element, None when focus is not inside a tab title.
FocusedTabElement ==
    IF focusedChild # None /\ isTab(children[focusedChild]) THEN focusedChild ELSE None

\* The tab elements of handleKeyDown without the aria-disabled filter.
EnabledTabElementsUnfiltered == getTabElements

EnabledTabElements ==
    LET IsEnabled(el) == el.ariaDisabled = "false"
    IN  SelectSeq(getTabElements, IsEnabled)

\* The JavaScript % operator: the remainder takes the sign of the dividend.
JsRem(a, n) == IF a >= 0 THEN a % n ELSE -((-a) % n)

\* handleKeyDown without the "+ length" that keeps the dividend non-negative.
NextFocusedIndexNoWrap(focusedIndex, which, length) ==
    JsRem(focusedIndex + (which - ARROW_UP), length)

\* handleKeyDown: the index computed for the next focused element.
NextFocusedIndex(focusedIndex, which, length) ==
    LET direction == which - ARROW_UP
    IN  JsRem(focusedIndex + direction + length, length)

\* enabledTabElements[nextFocusedIndex].focus() throws on an index outside the
\* array (the element is undefined).
handleKeyDown(which) ==
    /\ tabsPc = "mounted"
    /\ tabsCalls' = <<>>
    /\ tabsMoves' = 0
    /\ tabsEvent' = [type |-> "keydown", arg |-> which]
    /\ IF FocusedTabElement = None
       THEN UNCHANGED <<focusedChild, tabsPc>>
       ELSE LET enabledTabElements == EnabledTabElements
                focusedIndex == IndexOfPos(enabledTabElements, FocusedTabElement)
                length == Len(enabledTabElements)
                nextFocusedIndex == NextFocusedIndex(focusedIndex, which, length)
            IN  IF focusedIndex >= 0 /\ isEventKeyCode(which, {ARROW_LEFT, ARROW_RIGHT})
                THEN IF nextFocusedIndex \in 0 .. length - 1
                     THEN /\ focusedChild' = enabledTabElements[nextFocusedIndex + 1].pos
                          /\ UNCHANGED tabsPc
                     ELSE /\ tabsPc' = "error"
                          /\ UNCHANGED focusedChild
                ELSE UNCHANGED <<focusedChild, tabsPc>>
    /\ UNCHANGED <<children, defaultSelectedTabId, selectedTabId, indicatorWrapperStyle>>

\* handleKeyPress reacting to Enter only.
handleKeyPressEnterOnly(which) ==
    /\ tabsPc = "mounted"
    /\ IF FocusedTabElement # None /\ isEventKeyCode(which, {ENTER})
       THEN ClickHandler(children[FocusedTabElement].id, "keypress", which)
       ELSE /\ tabsCalls' = <<>>
            /\ tabsMoves' = 0
            /\ tabsEvent' = [type |-> "keypress", arg |-> which]
            /\ UNCHANGED <<selectedTabId, indicatorWrapperStyle, tabsPc>>
    /\ UNCHANGED <<children, defaultSelectedTabId, focusedChild>>

\* handleKeyPress: Space / Enter inside a tab title clicks that title.
handleKeyPress(which) ==
    /\ tabsPc = "mounted"
    /\ IF FocusedTabElement # None /\ isEventKeyCode(which, {SPACE, ENTER})
       THEN ClickHandler(children[FocusedTabElement].id, "keypress", which)
       ELSE /\ tabsCalls' = <<>>
            /\ tabsMoves' = 0
            /\ tabsEvent' = [type |-> "keypress", arg |-> which]
            /\ UNCHANGED <<selectedTabId, indicatorWrapperStyle, tabsPc>>
    /\ UNCHANGED <<children, defaultSelectedTabId, focusedChild>>

\* The DateRangeInput variables while the Tabs widget is the one under study.
DriIdle ==
    /\ value = <<>>
    /\ defaultValue = <<>>
    /\ isOpen = FALSE
    /\ isInputFocused = <<>>
    /\ inputString = <<>>
    /\ selectedValue = <<>>
    /\ driCalls = <<>>
    /\ driEvent = <<>>

TabsInit ==
    /\ DriIdle
    /\ children \in ChildrenLists
    /\ defaultSelectedTabId \in {None} \cup TabIds \cup {UndeclaredId}
    /\ tabsPc = "new"
    /\ selectedTabId = None
    /\ indicatorWrapperStyle = None
    /\ focusedChild = None
    /\ tabsCalls = <<>>
    /\ tabsMoves = 0
    /\ tabsEvent = [type |-> "none", arg |-> None]

TabsNext ==
    \/ Constructor /\ UNCHANGED driVars
    \/ ComponentDidMount /\ UNCHANGED driVars
    \/ PropsUpdate /\ UNCHANGED driVars
    \/ \E i \in 1 .. Len(children) : TabClick(i) /\ UNCHANGED driVars
    \/ \E p \in 0 .. Len(children) : MoveFocus(p) /\ UNCHANGED driVars
    \/ \E which \in KeyCodes : handleKeyDown(which) /\ UNCHANGED driVars
    \/ \E which \in KeyCodes : handleKeyPress(which) /\ UNCHANGED driVars

TabsSpec == TabsInit /\ [][TabsNext]_vars

(***************************************************************************)
(*                         Properties of Tabs                              *)
(***************************************************************************)

Min(S) == CHOOSE x \in S : \A y \in S : x <= y

Max(S) == CHOOSE x \in S : \A y \in S : x >= y

TabPositions == {i \in 1 .. Len(children) : children[i].isTab}

EnabledPositions == {i \in TabPositions : ~children[i].disabled}

\* C1: a click on a tab title whose id differs from selectedTabId sets
\* selectedTabId to that id and invokes onChange exactly once with (new id,
\* previous id); a click on the selected id changes nothing and invokes nothing,
\* so two consecutive clicks on one id invoke onChange at most once.
C1_SelectTab ==
    [][(tabsEvent'.type = "click") =>
          LET id == tabsEvent'.arg
          IN  /\ IF id # selectedTabId
                 THEN /\ selectedTabId' = id
                      /\ tabsCalls' = <<[selectedTabId |-> id,
                                         prevSelectedTabId |-> selectedTabId]>>
                 ELSE /\ selectedTabId' = selectedTabId
                      /\ tabsCalls' = <<>>
              /\ (tabsEvent.type = "click" /\ tabsEvent.arg = id)
                    => Len(tabsCalls) + Len(tabsCalls') <= 1]_vars

\* C1 witness: a click moved the selection from one declared tab to another and
\* reported it once.
C1_Witness ==
    /\ tabsEvent.type = "click"
    /\ Len(tabsCalls) = 1
    /\ selectedTabId = tabsEvent.arg
    /\ tabsCalls[1].prevSelectedTabId \in DeclaredIds \ {selectedTabId}

\* C2: selectedTabId is always None or the id of a declared <Tab>.
C2_SelectedIsDeclared == selectedTabId = None \/ selectedTabId \in DeclaredIds

\* C3: at most one rendered tab title is marked selected, namely the one whose
\* id is selectedTabId, and no click or keyboard event sets selectedTabId to an
\* id outside the declared set.
C3_AtMostOneSelected ==
    /\ [](tabsPc \in {"constructed", "mounted"} =>
             /\ Cardinality(SelectedTitles) <= 1
             /\ \A i \in TabPositions :
                   i \in SelectedTitles <=> children[i].id = selectedTabId)
    /\ [][(tabsEvent'.type \in {"click", "keydown", "keypress", "focus"}
              /\ selectedTabId' # selectedTabId)
            => selectedTabId' \in DeclaredIds]_vars

\* C3 witness: among three declared tabs exactly one title is selected after a
\* key press changed the selection.
C3_Witness ==
    /\ tabsEvent.type = "keypress"
    /\ Len(tabsCalls) = 1
    /\ Cardinality(TabPositions) = MaxChildren
    /\ Cardinality(SelectedTitles) = 1

\* C4 as stated: without a defaultSelectedTabId the initial selectedTabId is the
\* id of the first enabled tab; with one it is that id.
C4_FirstEnabledSelected ==
    (tabsEvent.type = "construct" /\ tabsPc = "constructed") =>
        IF defaultSelectedTabId = None
        THEN EnabledPositions # {} => selectedTabId = children[Min(EnabledPositions)].id
        ELSE selectedTabId = defaultSelectedTabId

\* C4 amended: without a defaultSelectedTabId the initial selectedTabId is the id
\* of the first declared <Tab> child, disabled or not; with one it is that id.
C4_FirstTabSelected ==
    (tabsEvent.type = "construct" /\ tabsPc = "constructed") =>
        IF defaultSelectedTabId = None
        THEN /\ TabPositions # {}
             /\ selectedTabId = children[Min(TabPositions)].id
        ELSE selectedTabId = defaultSelectedTabId

\* C4 witness: constructed without a default; the first <Tab> is disabled, is
\* preceded by another node and followed by an enabled tab, and is selected.
C4_Witness ==
    /\ tabsEvent.type = "construct"
    /\ tabsPc = "constructed"
    /\ defaultSelectedTabId = None
    /\ Len(children) = 3
    /\ ~children[1].isTab
    /\ children[2].isTab /\ children[2].disabled
    /\ children[3].isTab /\ ~children[3].disabled
    /\ selectedTabId = children[2].id

NextEnabled(p) ==
    IF \E q \in EnabledPositions : q > p
    THEN Min({q \in EnabledPositions : q > p})
    ELSE Min(EnabledPositions)

PrevEnabled(p) ==
    IF \E q \in EnabledPositions : q < p
    THEN Max({q \in EnabledPositions : q < p})
    ELSE Max(EnabledPositions)

\* C5: with focus on an enabled tab title, right-arrow (left-arrow) moves focus
\* to the next (previous) enabled tab title in declaration order, skipping
\* disabled tabs and wrapping around; the computed index lies in [0, N) for N
\* enabled tabs and focus never lands on a disabled tab.
C5_ArrowNavigation ==
    [][(tabsEvent'.type = "keydown"
           /\ tabsEvent'.arg \in {ARROW_LEFT, ARROW_RIGHT}
           /\ focusedChild \in EnabledPositions)
         => LET N == Cardinality(EnabledPositions)
                index == NextFocusedIndex(
                             IndexOfPos(EnabledTabElements, focusedChild),
                             tabsEvent'.arg, N)
            IN  /\ index \in 0 .. N - 1
                /\ focusedChild' \in EnabledPositions
                /\ focusedChild' = IF tabsEvent'.arg = ARROW_RIGHT
                                   THEN NextEnabled(focusedChild)
                                   ELSE PrevEnabled(focusedChild)
                /\ tabsPc' = tabsPc]_vars

\* C5 witness: after a left-arrow, focus is on the last of three tabs whose
\* middle one is disabled: it wrapped around from the first.
C5_Witness ==
    /\ tabsEvent = [type |-> "keydown", arg |-> ARROW_LEFT]
    /\ Len(children) = 3
    /\ EnabledPositions = {1, 3}
    /\ TabPositions = {1, 2, 3}
    /\ focusedChild = 3

\* C6: construction, mount and every click or key event complete without an
\* error, for every list of children and every defaultSelectedTabId.
C6_NoError == tabsPc # "error"

\* C19: the selection indicator is recomputed once after mount and once after
\* every update in which selectedTabId changed, and not after updates in which
\* it did not change; the update the recomputation triggers causes no further
\* recomputation, so the mount/update cycle terminates after any selection
\* change.
C19_IndicatorRecomputedOnce ==
    [][/\ tabsEvent'.type = "mount" => tabsMoves' = 1
       /\ tabsEvent'.type \in {"click", "keypress", "update", "focus", "keydown"}
             => tabsMoves' = IF selectedTabId' # selectedTabId THEN 1 ELSE 0
       /\ tabsMoves' < MaxUpdates]_vars

\* C19 witness: a click changed the selection of the mounted component and the
\* indicator was recomputed once for it.
C19_Witness ==
    /\ tabsPc = "mounted"
    /\ tabsEvent.type = "click"
    /\ Len(tabsCalls) = 1
    /\ selectedTabId = tabsCalls[1].selectedTabId
    /\ tabsMoves = 1

\* C21: a Space or Enter key press whose target is inside a tab title behaves
\* exactly like a click on that tab title (same selection change and same
\* onChange invocation, or no-op when already selected); key presses with other
\* keys or outside any tab title change nothing.
C21_KeyPressIsClick ==
    [][tabsEvent'.type = "keypress"
         => IF tabsEvent'.arg \in {SPACE, ENTER} /\ focusedChild \in TabPositions
            THEN LET id == children[focusedChild].id
                 IN  /\ selectedTabId' = id
                     /\ tabsCalls' =
                           IF id = selectedTabId THEN <<>>
                           ELSE <<[selectedTabId |-> id, prevSelectedTabId |-> selectedTabId]>>
                     /\ id = selectedTabId
                           => UNCHANGED <<indicatorWrapperStyle, tabsPc, focusedChild>>
            ELSE /\ tabsCalls' = <<>>
                 /\ UNCHANGED <<selectedTabId, indicatorWrapperStyle, tabsPc,
                                focusedChild, children>>]_vars

\* C21 witness: Space was pressed inside a tab title that was not selected: it
\* is selected now and onChange was invoked once with its id.
C21_Witness ==
    /\ tabsPc = "mounted"
    /\ tabsEvent = [type |-> "keypress", arg |-> SPACE]
    /\ focusedChild \in TabPositions
    /\ selectedTabId = children[focusedChild].id
    /\ Len(tabsCalls) = 1
    /\ tabsCalls[1].selectedTabId = selectedTabId
    /\ tabsCalls[1].prevSelectedTabId # selectedTabId

\* C22: arrow-key navigation changes only which tab title has focus: it never
\* changes selectedTabId and never invokes onChange; when no tab title is
\* focused, or the focused tab is disabled, or the key is not the left or right
\* arrow, the key-down event changes neither focus nor state.
C22_KeyDownOnlyMovesFocus ==
    [][tabsEvent'.type = "keydown"
         => /\ selectedTabId' = selectedTabId
            /\ tabsCalls' = <<>>
            /\ UNCHANGED <<indicatorWrapperStyle, tabsPc, children>>
            /\ (\/ focusedChild \notin TabPositions
                \/ children[focusedChild].disabled
                \/ tabsEvent'.arg \notin {ARROW_LEFT, ARROW_RIGHT})
                  => focusedChild' = focusedChild]_vars

\* C22 witness: with two enabled tabs or more, the right arrow moved focus onto
\* an enabled tab title that is not the selected one; nothing was reported.
C22_Witness ==
    /\ tabsPc = "mounted"
    /\ tabsEvent = [type |-> "keydown", arg |-> ARROW_RIGHT]
    /\ Cardinality(EnabledPositions) >= 2
    /\ focusedChild \in EnabledPositions
    /\ children[focusedChild].id # selectedTabId
    /\ tabsCalls = <<>>

\* C22 witness, no-op case: a key-down arrived while a disabled tab title had
\* focus and focus stayed there.
C22_WitnessDisabled ==
    /\ tabsPc = "mounted"
    /\ tabsEvent = [type |-> "keydown", arg |-> ARROW_LEFT]
    /\ focusedChild \in TabPositions
    /\ children[focusedChild].disabled
    /\ Cardinality(EnabledPositions) >= 1

(***************************************************************************)
(*                             DateRangeInput                              *)
(***************************************************************************)

\* Days are numbered 1 .. MaxDay (the days of one month).
MaxDay == 4

Days == 1 .. MaxDay

\* props.minDate / props.maxDate: the first and the last day are out of range.
minDate == 2

maxDate == MaxDay - 1

\* DateRangeBoundary
START == "START"

END == "END"

Boundaries == {START, END}

\* Position of a boundary in a DateRange / MomentDateRange tuple.
Idx(boundary) == IF boundary = START THEN 1 ELSE 2

\* moment.Moment values: moment(null), an unparseable moment, a calendar day.
MomentNull == [valid |-> FALSE, nullInput |-> TRUE, day |-> 0]

MomentInvalid == [valid |-> FALSE, nullInput |-> FALSE, day |-> 0]

MomentOf(d) == [valid |-> TRUE, nullInput |-> FALSE, day |-> d]

\* JS values handed to callbacks and taken from props: null, new Date(undefined)
\* (the invalid-date sentinel) and a Date on a calendar day.
DateNull == [kind |-> "null", day |-> 0]

DateInvalid == [kind |-> "Invalid Date", day |-> 0]

DateOf(d) == [kind |-> "date", day |-> d]

\* undefined props / state strings, and a null state string.
NoRange == <<>>

UNDEFINED == "<undefined>"

NULL == "<null>"

\* momentDate.format("YYYY-MM-DD"); an invalid moment formats as "Invalid date".
MomentFormat(m) ==
    IF m.valid THEN "2020-01-0" \o ToString(m.day) ELSE "Invalid date"

\* A second spelling that moment parses (non-strictly) to the same day.
Unpadded(d) == "2020-1-" \o ToString(d)

\* Texts a user types: empty, garbage, every day as formatted, and minDate in
\* its second spelling.
InputTexts ==
    {"", "garbage", Unpadded(minDate)} \cup {MomentFormat(MomentOf(d)) : d \in Days}

\* dateUtils: m.isValid() / parsingFlags().nullInput / isBetween(min, max, "day", "[]")
isValid(m) == m.valid

isMomentNull(m) == m.nullInput

isMomentInRange(m) == m.valid /\ minDate <= m.day /\ m.day <= maxDate

isMomentValidAndInRange(m) == isValid(m) /\ isMomentInRange(m)

\* dateUtils.fromDateToMoment / fromDateRangeToMomentDateRange
fromDateToMoment(date) ==
    IF date = DateNull THEN MomentNull
    ELSE IF date = DateInvalid THEN MomentInvalid
    ELSE MomentOf(date.day)

fromDateRangeToMomentDateRange(range) ==
    <<fromDateToMoment(range[1]), fromDateToMoment(range[2])>>

\* dateUtils.fromMomentToDate / fromMomentDateRangeToDateRange: "no date" is
\* reported as null, an unparseable moment as an invalid Date.
fromMomentToDate(m) ==
    IF isMomentNull(m) THEN DateNull
    ELSE IF ~isValid(m) THEN DateInvalid
    ELSE DateOf(m.day)

fromMomentDateRangeToDateRange(range) ==
    <<fromMomentToDate(range[1]), fromMomentToDate(range[2])>>

\* moment(dateString, this.props.format)
dateStringToMoment(dateString) ==
    IF dateString = NULL THEN MomentNull
    ELSE IF \E d \in Days : dateString \in {MomentFormat(MomentOf(d)), Unpadded(d)}
    THEN MomentOf(CHOOSE d \in Days : dateString \in {MomentFormat(MomentOf(d)), Unpadded(d)})
    ELSE MomentInvalid

\* getFormattedDateString without the "no date" case.
getFormattedDateStringNoNull(momentDate) == MomentFormat(momentDate)

getFormattedDateString(momentDate) ==
    IF isMomentNull(momentDate) THEN "" ELSE MomentFormat(momentDate)

isControlled == value # NoRange

\* getInitialRange consulting defaultValue before value.
getInitialRangeDefaultFirst(v, dv) ==
    IF dv # NoRange THEN fromDateRangeToMomentDateRange(dv)
    ELSE IF v # NoRange THEN fromDateRangeToMomentDateRange(v)
    ELSE <<MomentNull, MomentNull>>

getInitialRange(v, dv) ==
    IF v # NoRange THEN fromDateRangeToMomentDateRange(v)
    ELSE IF dv # NoRange THEN fromDateRangeToMomentDateRange(dv)
    ELSE <<MomentNull, MomentNull>>

getOtherBoundary(boundary) == IF boundary = START THEN END ELSE START

\* controlledValue read from the other position of the controlled range.
controlledValueOtherBoundary(boundary) ==
    fromDateRangeToMomentDateRange(value)[Idx(getOtherBoundary(boundary))]

\* getStateKeysAndValuesForBoundary(boundary).values.controlledValue
controlledValue(boundary) == fromDateRangeToMomentDateRange(value)[Idx(boundary)]

getDateForErrorCallback(momentDate) ==
    IF ~isValid(momentDate) THEN DateInvalid ELSE fromMomentToDate(momentDate)

getRangeForErrorCallback(errorValue, errorBoundary) ==
    LET otherValue == selectedValue[getOtherBoundary(errorBoundary)]
        errorDate == getDateForErrorCallback(errorValue)
        otherDate == getDateForErrorCallback(otherValue)
    IN  IF errorBoundary = START THEN <<errorDate, otherDate>> ELSE <<otherDate, errorDate>>

invalidDateMessage == "Invalid date 2"

outOfRangeMessage == "Out of range"

\* getInputDisplayString showing the typed text of a valid boundary whether or
\* not the field is focused.
getInputDisplayStringKeepsTyped(boundary) ==
    IF isMomentNull(selectedValue[boundary]) THEN ""
    ELSE IF ~isValid(selectedValue[boundary]) THEN invalidDateMessage
    ELSE inputString[boundary]

\* render(): the text shown in the input of a boundary.
getInputDisplayString(boundary) ==
    IF isMomentNull(selectedValue[boundary]) THEN ""
    ELSE IF ~isValid(selectedValue[boundary]) THEN invalidDateMessage
    ELSE IF isInputFocused[boundary] THEN inputString[boundary]
    ELSE IF ~isMomentInRange(selectedValue[boundary]) THEN outOfRangeMessage
    ELSE getFormattedDateString(selectedValue[boundary])

OnChange(range) == [cb |-> "onChange", range |-> range]

OnError(range) == [cb |-> "onError", range |-> range]

\* Props a host passes: dates of a value / defaultValue range.
PropDates == {DateNull, DateOf(minDate), DateOf(maxDate)}

PropRanges == {<<a, b>> : a \in PropDates, b \in PropDates}

\* Ranges the DateRangePicker reports: empty, one day, or an ordered pair of
\* days, all within [minDate, maxDate].
PickerRanges ==
    {<<DateNull, DateNull>>}
        \cup {<<DateOf(d), DateNull>> : d \in minDate .. maxDate}
        \cup {<<DateOf(d), DateOf(e)>> : d \in minDate .. maxDate, e \in minDate .. maxDate}

\* componentWillReceiveProps(nextProps), nextProps.value = nextValue. A range
\* prop is a fresh array on each update, so `nextProps.value !== this.props.value`
\* fails only when both are undefined.
componentWillReceiveProps(nextValue) ==
    /\ value' = nextValue
    /\ IF ~(nextValue = NoRange /\ value = NoRange)
       THEN selectedValue' =
               LET r == getInitialRange(nextValue, defaultValue)
               IN  [b \in Boundaries |-> r[Idx(b)]]
       ELSE UNCHANGED selectedValue
    /\ driCalls' = <<>>
    /\ driEvent' = [type |-> "props", boundary |-> "", text |-> ""]
    /\ UNCHANGED <<defaultValue, isOpen, isInputFocused, inputString>>

\* handleDateRangePickerChange storing the picked range in controlled mode too.
handleDateRangePickerChangeUnguarded(selectedRange) ==
    /\ isOpen
    /\ selectedValue' =
          LET r == fromDateRangeToMomentDateRange(selectedRange)
          IN  [b \in Boundaries |-> r[Idx(b)]]
    /\ driCalls' = <<OnChange(selectedRange)>>
    /\ driEvent' = [type |-> "pick", boundary |-> "", text |-> "", range |-> selectedRange]
    /\ UNCHANGED <<value, defaultValue, isOpen, isInputFocused, inputString>>

\* handleDateRangePickerChange reporting the picked range only when it also
\* stores it.
handleDateRangePickerChangeSilentWhenControlled(selectedRange) ==
    /\ isOpen
    /\ IF value = NoRange
       THEN /\ selectedValue' =
                  LET r == fromDateRangeToMomentDateRange(selectedRange)
                  IN  [b \in Boundaries |-> r[Idx(b)]]
            /\ driCalls' = <<OnChange(selectedRange)>>
       ELSE /\ UNCHANGED selectedValue
            /\ driCalls' = <<>>
    /\ driEvent' = [type |-> "pick", boundary |-> "", text |-> "", range |-> selectedRange]
    /\ UNCHANGED <<value, defaultValue, isOpen, isInputFocused, inputString>>

handleDateRangePickerChange(selectedRange) ==
    /\ isOpen
    /\ IF value = NoRange
       THEN selectedValue' =
               LET r == fromDateRangeToMomentDateRange(selectedRange)
               IN  [b \in Boundaries |-> r[Idx(b)]]
       ELSE UNCHANGED selectedValue
    /\ driCalls' = <<OnChange(selectedRange)>>
    /\ driEvent' = [type |-> "pick", boundary |-> "", text |-> "", range |-> selectedRange]
    /\ UNCHANGED <<value, defaultValue, isOpen, isInputFocused, inputString>>

\* A focus event reaches an input only while neither input has DOM focus.
handleInputFocus(boundary) ==
    /\ \A b \in Boundaries : ~isInputFocused[b]
    /\ isOpen' = TRUE
    /\ inputString' =
          [inputString EXCEPT ![boundary] = getFormattedDateString(selectedValue[boundary])]
    /\ isInputFocused' = [isInputFocused EXCEPT ![boundary] = TRUE]
    /\ driCalls' = <<>>
    /\ driEvent' = [type |-> "focus", boundary |-> boundary, text |-> ""]
    /\ UNCHANGED <<value, defaultValue, selectedValue>>

\* A blur event reaches the input that has DOM focus.
handleInputBlur(boundary) ==
    LET str == inputString[boundary]
        maybeNextValue == dateStringToMoment(str)
    IN  /\ isInputFocused[boundary]
        /\ driEvent' = [type |-> "blur", boundary |-> boundary, text |-> str]
        /\ isInputFocused' = [isInputFocused EXCEPT ![boundary] = FALSE]
        /\ IF str \in {UNDEFINED, NULL} \/ Len(str) = 0
           THEN IF isControlled
                THEN /\ inputString' = [inputString EXCEPT ![boundary] =
                                           getFormattedDateString(controlledValue(boundary))]
                     /\ UNCHANGED selectedValue
                     /\ driCalls' = <<>>
                ELSE /\ selectedValue' = [selectedValue EXCEPT ![boundary] = MomentNull]
                     /\ inputString' = [inputString EXCEPT ![boundary] = NULL]
                     /\ driCalls' = <<>>
           ELSE IF ~isMomentValidAndInRange(maybeNextValue)
                THEN IF isControlled
                     THEN /\ UNCHANGED <<inputString, selectedValue>>
                          /\ driCalls' = <<>>
                     ELSE /\ inputString' = [inputString EXCEPT ![boundary] = NULL]
                          /\ selectedValue' =
                                [selectedValue EXCEPT ![boundary] = maybeNextValue]
                          /\ driCalls' =
                                IF isMomentValidAndInRange(maybeNextValue)
                                THEN <<>>
                                ELSE <<OnError(getRangeForErrorCallback(maybeNextValue, boundary))>>
                ELSE /\ UNCHANGED <<inputString, selectedValue>>
                     /\ driCalls' = <<>>
        /\ UNCHANGED <<value, defaultValue, isOpen>>

\* handleInputChange with the typed date always put at the start of the range.
nextMomentDateRangeStartOnly(boundary, maybeNextValue) ==
    <<maybeNextValue, selectedValue[END]>>

\* handleInputChange: the range reported for a valid, in-range typed date.
nextMomentDateRange(boundary, maybeNextValue) ==
    IF boundary = START
    THEN <<maybeNextValue, selectedValue[END]>>
    ELSE <<selectedValue[START], maybeNextValue>>

\* handleInputChange committing a typed date that is unparseable or out of
\* range, as the blur handler does.
handleInputChangeCommitsInvalid(boundary, str) ==
    LET maybeNextValue == dateStringToMoment(str)
    IN  /\ isInputFocused[boundary]
        /\ str # getInputDisplayString(boundary)
        /\ driEvent' = [type |-> "change", boundary |-> boundary, text |-> str]
        /\ inputString' = [inputString EXCEPT ![boundary] = str]
        /\ IF Len(str) = 0
           THEN /\ IF isControlled
                   THEN UNCHANGED selectedValue
                   ELSE selectedValue' = [selectedValue EXCEPT ![boundary] = MomentNull]
                /\ driCalls' = <<OnChange(<<DateNull, DateNull>>)>>
           ELSE /\ IF isControlled
                   THEN UNCHANGED selectedValue
                   ELSE selectedValue' =
                           [selectedValue EXCEPT ![boundary] = maybeNextValue]
                /\ driCalls' =
                      IF isMomentValidAndInRange(maybeNextValue)
                      THEN <<OnChange(fromMomentDateRangeToDateRange(
                                 nextMomentDateRange(boundary, maybeNextValue)))>>
                      ELSE <<>>
        /\ UNCHANGED <<value, defaultValue, isOpen, isInputFocused>>

\* handleInputChange clearing both selected values when the text is emptied,
\* as the range it reports then suggests.
handleInputChangeClearsBoth(boundary, str) ==
    LET maybeNextValue == dateStringToMoment(str)
    IN  /\ isInputFocused[boundary]
        /\ str # getInputDisplayString(boundary)
        /\ driEvent' = [type |-> "change", boundary |-> boundary, text |-> str]
        /\ inputString' = [inputString EXCEPT ![boundary] = str]
        /\ IF Len(str) = 0
           THEN /\ IF isControlled
                   THEN UNCHANGED selectedValue
                   ELSE selectedValue' = [b \in Boundaries |-> MomentNull]
                /\ driCalls' = <<OnChange(<<DateNull, DateNull>>)>>
           ELSE IF isMomentValidAndInRange(maybeNextValue)
                THEN /\ IF isControlled
                        THEN UNCHANGED selectedValue
                        ELSE selectedValue' =
                                [selectedValue EXCEPT ![boundary] = maybeNextValue]
                     /\ driCalls' =
                           <<OnChange(fromMomentDateRangeToDateRange(
                                 nextMomentDateRange(boundary, maybeNextValue)))>>
                ELSE /\ UNCHANGED selectedValue
                     /\ driCalls' = <<>>
        /\ UNCHANGED <<value, defaultValue, isOpen, isInputFocused>>

\* A change event reaches the focused input when its text differs from the text
\* the input displays.
handleInputChange(boundary, str) ==
    LET maybeNextValue == dateStringToMoment(str)
    IN  /\ isInputFocused[boundary]
        /\ str # getInputDisplayString(boundary)
        /\ driEvent' = [type |-> "change", boundary |-> boundary, text |-> str]
        /\ inputString' = [inputString EXCEPT ![boundary] = str]
        /\ IF Len(str) = 0
           THEN /\ IF isControlled
                   THEN UNCHANGED selectedValue
                   ELSE selectedValue' = [selectedValue EXCEPT ![boundary] = MomentNull]
                /\ driCalls' = <<OnChange(<<DateNull, DateNull>>)>>
           ELSE IF isMomentValidAndInRange(maybeNextValue)
                THEN /\ IF isControlled
                        THEN UNCHANGED selectedValue
                        ELSE selectedValue' =
                                [selectedValue EXCEPT ![boundary] = maybeNextValue]
                     /\ driCalls' =
                           <<OnChange(fromMomentDateRangeToDateRange(
                                 nextMomentDateRange(boundary, maybeNextValue)))>>
                ELSE /\ UNCHANGED selectedValue
                     /\ driCalls' = <<>>
        /\ UNCHANGED <<value, defaultValue, isOpen, isInputFocused>>

handlePopoverClose ==
    /\ isOpen
    /\ isOpen' = FALSE
    /\ driCalls' = <<>>
    /\ driEvent' = [type |-> "close", boundary |-> "", text |-> ""]
    /\ UNCHANGED <<value, defaultValue, isInputFocused, inputString, selectedValue>>

\* The Tabs variables while the DateRangeInput widget is the one under study.
TabsIdle ==
    /\ children = <<>>
    /\ defaultSelectedTabId = None
    /\ tabsPc = "new"
    /\ selectedTabId = None
    /\ indicatorWrapperStyle = None
    /\ focusedChild = None
    /\ tabsCalls = <<>>
    /\ tabsMoves = 0
    /\ tabsEvent = [type |-> "none", arg |-> None]

\* The state after the constructor.
DateInit ==
    /\ TabsIdle
    /\ value \in {NoRange} \cup PropRanges
    /\ defaultValue \in {NoRange, <<DateOf(minDate), DateOf(maxDate)>>}
    /\ isOpen = FALSE
    /\ isInputFocused = [b \in Boundaries |-> FALSE]
    /\ inputString = [b \in Boundaries |-> UNDEFINED]
    /\ selectedValue =
          LET r == getInitialRange(value, defaultValue)
          IN  [b \in Boundaries |-> r[Idx(b)]]
    /\ driCalls = <<>>
    /\ driEvent = [type |-> "none", boundary |-> "", text |-> ""]

DateNext ==
    \/ \E v \in {NoRange} \cup PropRanges :
          componentWillReceiveProps(v) /\ UNCHANGED tabsVars
    \/ \E r \in PickerRanges : handleDateRangePickerChange(r) /\ UNCHANGED tabsVars
    \/ \E b \in Boundaries : handleInputFocus(b) /\ UNCHANGED tabsVars
    \/ \E b \in Boundaries : handleInputBlur(b) /\ UNCHANGED tabsVars
    \/ \E b \in Boundaries, t \in InputTexts : handleInputChange(b, t) /\ UNCHANGED tabsVars
    \/ handlePopoverClose /\ UNCHANGED tabsVars

DateSpec == DateInit /\ [][DateNext]_vars

(***************************************************************************)
(*                     Properties of DateRangeInput                        *)
(***************************************************************************)

\* The day a text denotes under the format, 0 when it denotes none.
DayOfText(t) ==
    IF \E d \in Days : t = MomentFormat(MomentOf(d)) \/ t = Unpadded(d)
    THEN CHOOSE d \in Days : t = MomentFormat(MomentOf(d)) \/ t = Unpadded(d)
    ELSE 0

TextInRange(t) == DayOfText(t) \in minDate .. maxDate

\* C7: a change event whose text is non-empty, parses and is in range invokes
\* onChange exactly once with the parsed date at that boundary's position and
\* the other boundary's current selected value at the other position; when
\* uncontrolled, the boundary's selected value becomes the parsed date.
C7_ValidChangeReports ==
    [][(driEvent'.type = "change" /\ driEvent'.text # "" /\ TextInRange(driEvent'.text))
         => LET b == driEvent'.boundary
                o == IF b = START THEN END ELSE START
                d == DayOfText(driEvent'.text)
            IN  /\ Len(driCalls') = 1
                /\ driCalls'[1].cb = "onChange"
                /\ driCalls'[1].range[Idx(b)] = DateOf(d)
                /\ driCalls'[1].range[Idx(o)] = fromMomentToDate(selectedValue[o])
                /\ value = NoRange => selectedValue'[b] = MomentOf(d)]_vars

\* C7 witness: uncontrolled, maxDate typed into the end field while the start
\* boundary holds minDate: onChange([minDate, maxDate]) and the end is selected.
C7_Witness ==
    /\ value = NoRange
    /\ driEvent.type = "change"
    /\ driEvent.boundary = END
    /\ driEvent.text = MomentFormat(MomentOf(maxDate))
    /\ driCalls = <<OnChange(<<DateOf(minDate), DateOf(maxDate)>>)>>
    /\ selectedValue[END] = MomentOf(maxDate)
    /\ selectedValue[START] = MomentOf(minDate)

\* C8: a change event that empties a focused start field holding a valid date,
\* while the end boundary holds a date, invokes onChange([null, current end]).
C8_ClearKeepsOtherBoundary ==
    [][(driEvent'.type = "change" /\ driEvent'.text = "" /\ driEvent'.boundary = START
           /\ isMomentValidAndInRange(selectedValue[START])
           /\ isValid(selectedValue[END]))
         => driCalls' = <<OnChange(<<DateNull, DateOf(selectedValue[END].day)>>)>>]_vars

\* C9: every blur of a boundary whose text is non-empty and unparseable or out
\* of range invokes onError exactly once, controlled or not.
C9_BlurReportsError ==
    [][(driEvent'.type = "blur"
           /\ driEvent'.text \notin {UNDEFINED, NULL, ""}
           /\ ~TextInRange(driEvent'.text))
         => (Len(driCalls') = 1 /\ driCalls'[1].cb = "onError")]_vars

\* C10: the range passed to onError on blur carries, at the offending position,
\* the invalid-date sentinel for unparseable text and the parsed date for
\* out-of-range text, and at the other position the other boundary's date, or
\* null (never the sentinel) when the other boundary has no date.
C10_ErrorRange ==
    [][(driEvent'.type = "blur" /\ Len(driCalls') = 1 /\ driCalls'[1].cb = "onError")
         => LET b == driEvent'.boundary
                o == IF b = START THEN END ELSE START
                d == DayOfText(driEvent'.text)
                range == driCalls'[1].range
            IN  /\ range[Idx(b)] = IF d = 0 THEN DateInvalid ELSE DateOf(d)
                /\ isValid(selectedValue[o]) => range[Idx(o)] = DateOf(selectedValue[o].day)
                /\ isMomentNull(selectedValue[o]) => range[Idx(o)] = DateNull]_vars

\* A text that parses to a day outside [minDate, maxDate].
TextOutOfRange(t) == DayOfText(t) \in Days /\ ~TextInRange(t)

NoOnChange(calls) == \A k \in 1 .. Len(calls) : calls[k].cb # "onChange"

\* C11: typing a text that parses but is out of range and then blurring fires
\* onError and never onChange: the change event invokes no onChange, no blur
\* event invokes onChange, and the blur that follows the typing invokes onError.
C11_OutOfRangeBlur ==
    [][/\ (driEvent'.type = "change" /\ TextOutOfRange(driEvent'.text))
             => NoOnChange(driCalls')
       /\ driEvent'.type = "blur" => NoOnChange(driCalls')
       /\ (driEvent'.type = "blur" /\ driEvent.type = "change"
              /\ driEvent.boundary = driEvent'.boundary
              /\ TextOutOfRange(driEvent.text))
             => (Len(driCalls') = 1 /\ driCalls'[1].cb = "onError")]_vars

\* C12: a change event whose text is non-empty and unparseable or out of range
\* stores the text as typed, leaves both selected values unchanged and invokes
\* neither onChange nor onError.
C12_InvalidChangeOnlyStoresText ==
    [][(driEvent'.type = "change" /\ driEvent'.text # "" /\ ~TextInRange(driEvent'.text))
         => /\ inputString'[driEvent'.boundary] = driEvent'.text
            /\ selectedValue' = selectedValue
            /\ driCalls' = <<>>]_vars

\* C12 witness: uncontrolled, garbage typed over a start boundary that holds
\* minDate: the text is stored, the date is kept, nothing is reported.
C12_Witness ==
    /\ value = NoRange
    /\ driEvent = [type |-> "change", boundary |-> START, text |-> "garbage"]
    /\ inputString[START] = "garbage"
    /\ selectedValue[START] = MomentOf(minDate)
    /\ driCalls = <<>>

\* C13: a focus event on a boundary marks that boundary focused, sets its raw
\* text to the formatted rendering of its current selected value (the empty
\* string when no date is chosen), opens the popover, leaves both selected
\* values unchanged and invokes no callback.
C13_FocusSeedsText ==
    [][driEvent'.type = "focus"
         => LET b == driEvent'.boundary
            IN  /\ isInputFocused'[b]
                /\ inputString'[b] =
                      IF selectedValue[b] = MomentNull THEN ""
                      ELSE MomentFormat(selectedValue[b])
                /\ isOpen'
                /\ selectedValue' = selectedValue
                /\ driCalls' = <<>>]_vars

\* C13 witness: the start field is focused while it holds no date and the end
\* boundary holds maxDate: the text is seeded empty and the popover is open.
C13_Witness ==
    /\ driEvent = [type |-> "focus", boundary |-> START, text |-> ""]
    /\ selectedValue[START] = MomentNull
    /\ selectedValue[END] = MomentOf(maxDate)
    /\ isInputFocused[START]
    /\ inputString[START] = ""
    /\ isOpen
    /\ driCalls = <<>>

\* C14: a blur of a boundary whose text is empty collapses that boundary to
\* "no date": when uncontrolled its selected value becomes null and it displays
\* the empty string; when controlled its text reverts to the formatted
\* controlled value; in both modes the boundary becomes unfocused and neither
\* onChange nor onError is invoked.
C14_EmptyBlurCollapses ==
    [][(driEvent'.type = "blur" /\ driEvent'.text \in {"", NULL, UNDEFINED})
         => \A b \in {c \in Boundaries : c = driEvent'.boundary} :
                /\ ~isInputFocused'[b]
                /\ driCalls' = <<>>
                /\ value = NoRange =>
                      /\ selectedValue'[b] = MomentNull
                      /\ getInputDisplayString(b)' = ""
                /\ value # NoRange =>
                      inputString'[b] =
                         IF value[Idx(b)] = DateNull THEN ""
                         ELSE MomentFormat(MomentOf(value[Idx(b)].day))]_vars

\* C14 witness: controlled by [minDate, maxDate], the start field was emptied
\* and blurred: its text is minDate formatted again.
C14_Witness ==
    /\ value = <<DateOf(minDate), DateOf(maxDate)>>
    /\ driEvent = [type |-> "blur", boundary |-> START, text |-> ""]
    /\ ~isInputFocused[START]
    /\ inputString[START] = MomentFormat(MomentOf(minDate))
    /\ driCalls = <<>>

\* C14 witness, uncontrolled: a start boundary that held a date shows nothing
\* after its emptied field is blurred.
C14_WitnessUncontrolled ==
    /\ value = NoRange
    /\ driEvent = [type |-> "blur", boundary |-> START, text |-> ""]
    /\ selectedValue[START] = MomentNull
    /\ getInputDisplayString(START) = ""
    /\ ~isInputFocused[START]

\* C15: in every reachable state a boundary that is not focused displays the
\* empty string when its selected value is null, the invalid-date message when
\* it is unparseable, the out-of-range message when it is valid but outside
\* [minDate, maxDate], and otherwise the formatted rendering of its selected
\* value, never leftover typed text; right after an uncontrolled blur with
\* unparseable (out-of-range) text the boundary shows the invalid-date
\* (out-of-range) message.
C15_UnfocusedDisplay ==
    /\ \A b \in Boundaries :
          ~isInputFocused[b] =>
             getInputDisplayString(b) =
                IF selectedValue[b] = MomentNull THEN ""
                ELSE IF selectedValue[b] = MomentInvalid THEN "Invalid date 2"
                ELSE IF selectedValue[b].day \notin minDate .. maxDate THEN "Out of range"
                ELSE MomentFormat(selectedValue[b])
    /\ (driEvent.type = "blur" /\ value = NoRange /\ driEvent.text # "")
          => /\ DayOfText(driEvent.text) = 0
                   => getInputDisplayString(driEvent.boundary) = "Invalid date 2"
             /\ TextOutOfRange(driEvent.text)
                   => getInputDisplayString(driEvent.boundary) = "Out of range"

\* C15 witness: uncontrolled, a day before minDate was typed into the start
\* field and the field blurred: it shows the out-of-range message.
C15_Witness ==
    /\ value = NoRange
    /\ driEvent = [type |-> "blur", boundary |-> START,
                   text |-> MomentFormat(MomentOf(minDate - 1))]
    /\ ~isInputFocused[START]
    /\ selectedValue[START] = MomentOf(minDate - 1)
    /\ getInputDisplayString(START) = "Out of range"

\* C16: while a boundary is focused, the text it displays is exactly the text
\* of the most recent change event on that boundary, for every typed text and
\* every prior selected value of that boundary (null and unparseable included);
\* a calendar selection made while the boundary is focused does not alter the
\* typed text.
C16_FocusedShowsTypedText ==
    /\ []((driEvent.type = "change" /\ isInputFocused[driEvent.boundary])
             => getInputDisplayString(driEvent.boundary) = driEvent.text)
    /\ [][driEvent'.type = "pick" => inputString' = inputString]_vars

\* The selected values that stand for a range of dates.
SelectedFrom(range) == [b \in Boundaries |-> fromDateToMoment(range[Idx(b)])]

\* C17: in controlled mode no focus, change, blur or calendar-selection event
\* modifies selectedStart or selectedEnd; they change only on a prop update,
\* which re-derives them from the new props; valid typed input is reported
\* through onChange only.
C17_ControlledSelectionFromProps ==
    [][value # NoRange
         => /\ driEvent'.type # "props" => selectedValue' = selectedValue
            /\ driEvent'.type = "props"
                  => selectedValue' =
                        IF value' # NoRange THEN SelectedFrom(value')
                        ELSE IF defaultValue # NoRange THEN SelectedFrom(defaultValue)
                        ELSE [b \in Boundaries |-> MomentNull]
            /\ (driEvent'.type = "change" /\ TextInRange(driEvent'.text))
                  => (Len(driCalls') = 1 /\ driCalls'[1].cb = "onChange")]_vars

\* C17 witness: controlled by [minDate, maxDate], the calendar reported
\* [minDate, null]: onChange carries it and the selected range is still the
\* controlled one.
C17_Witness ==
    /\ value = <<DateOf(minDate), DateOf(maxDate)>>
    /\ driEvent.type = "pick"
    /\ driCalls = <<OnChange(<<DateOf(minDate), DateNull>>)>>
    /\ selectedValue = SelectedFrom(value)

\* The selected range the props call for: value when set, otherwise
\* defaultValue when set, otherwise [no date, no date].
RangeOfProps(v, dv) ==
    IF v # NoRange THEN SelectedFrom(v)
    ELSE IF dv # NoRange THEN SelectedFrom(dv)
    ELSE [b \in Boundaries |-> MomentNull]

\* C18: the selected range is initialised at construction, and re-derived on
\* every prop update that changes value, from value when value is set,
\* otherwise from defaultValue when it is set, otherwise as [no date, no date];
\* defaultValue is ignored whenever value is set, and the popover is initially
\* closed.
C18_SelectedRangeFromProps ==
    /\ [](driEvent.type = "none"
             => (selectedValue = RangeOfProps(value, defaultValue) /\ ~isOpen))
    /\ [][(driEvent'.type = "props" /\ value' # value)
             => selectedValue' = RangeOfProps(value', defaultValue)]_vars

\* C18 witness: a prop update delivered value = [null, minDate] to a widget
\* whose defaultValue is [minDate, maxDate]; the selected range is the value's.
C18_Witness ==
    /\ driEvent.type = "props"
    /\ value = <<DateNull, DateOf(minDate)>>
    /\ defaultValue = <<DateOf(minDate), DateOf(maxDate)>>
    /\ selectedValue = [b \in Boundaries |-> IF b = START THEN MomentNull ELSE MomentOf(minDate)]

\* C20: a calendar-popover selection invokes onChange exactly once with the
\* selected range in both modes; when uncontrolled it also sets selectedStart
\* and selectedEnd to that range, when controlled it leaves them unchanged; in
\* neither mode does it change either boundary's raw text or focus flag.
C20_PickReportsRange ==
    [][driEvent'.type = "pick"
         => /\ driCalls' = <<[cb |-> "onChange", range |-> driEvent'.range]>>
            /\ value = NoRange
                  => \A b \in Boundaries :
                        selectedValue'[b] =
                           IF driEvent'.range[Idx(b)] = DateNull THEN MomentNull
                           ELSE MomentOf(driEvent'.range[Idx(b)].day)
            /\ value # NoRange => selectedValue' = selectedValue
            /\ inputString' = inputString
            /\ isInputFocused' = isInputFocused]_vars

\* C20 witness: uncontrolled, [minDate, maxDate] picked in the calendar while
\* the start field is focused and holds the typed text "garbage".
C20_Witness ==
    /\ value = NoRange
    /\ driEvent.type = "pick"
    /\ driEvent.range = <<DateOf(minDate), DateOf(maxDate)>>
    /\ driCalls = <<OnChange(<<DateOf(minDate), DateOf(maxDate)>>)>>
    /\ selectedValue = [b \in Boundaries |-> IF b = START THEN MomentOf(minDate)
                                                           ELSE MomentOf(maxDate)]
    /\ isInputFocused[START]
    /\ inputString[START] = "garbage"

\* C23: a focus, change or blur event on one boundary never modifies the other
\* boundary's raw text, focus flag or selected value; only a calendar-popover
\* selection or a prop update can change both boundaries in one step.
C23_OtherBoundaryUntouched ==
    [][/\ driEvent'.type \in {"focus", "change", "blur"}
             => \A o \in Boundaries \ {driEvent'.boundary} :
                   /\ inputString'[o] = inputString[o]
                   /\ isInputFocused'[o] = isInputFocused[o]
                   /\ selectedValue'[o] = selectedValue[o]
       /\ (\A b \in Boundaries :
              \/ inputString'[b] # inputString[b]
              \/ isInputFocused'[b] # isInputFocused[b]
              \/ selectedValue'[b] # selectedValue[b])
             => driEvent'.type \in {"pick", "props"}]_vars

\* C23 witness: uncontrolled, the start field was emptied while the end
\* boundary holds maxDate: the start is cleared and the end still holds maxDate.
C23_Witness ==
    /\ value = NoRange
    /\ driEvent = [type |-> "change", boundary |-> START, text |-> ""]
    /\ selectedValue[START] = MomentNull
    /\ selectedValue[END] = MomentOf(maxDate)
    /\ ~isInputFocused[END]

\* A date a host may be told is selected: null, or a day within [minDate, maxDate].
NullOrInRange(date) ==
    date = DateNull \/ (date.kind = "date" /\ date.day \in minDate .. maxDate)

\* C24: every range passed to onChange by a text-change event has each boundary
\* either null or a valid date within [minDate, maxDate]; the untouched other
\* boundary is never reported as an unparseable or out-of-range date left
\* behind by an earlier failed blur.
C24_ChangeReportsSelectableDates ==
    driEvent.type = "change"
       => \A i \in 1 .. Len(driCalls) :
             driCalls[i].cb = "onChange"
                => \A k \in 1 .. 2 : NullOrInRange(driCalls[i].range[k])

\* C25: when uncontrolled, whenever a focus, change, blur or calendar-selection
\* event changes the internal range [selectedStart, selectedEnd] to one whose
\* boundaries are each null or valid and in range, onChange is invoked in that
\* same event with exactly that range, so the range last reported through
\* onChange agrees with the internal selected range.
C25_SelectionChangesAreReported ==
    [][(/\ value = NoRange
        /\ driEvent'.type \in {"focus", "change", "blur", "pick"}
        /\ selectedValue' # selectedValue
        /\ \A b \in Boundaries :
              selectedValue'[b] = MomentNull \/ isMomentValidAndInRange(selectedValue'[b]))
         => driCalls' =
               <<[cb |-> "onChange",
                  range |-> <<fromMomentToDate(selectedValue'[START]),
                              fromMomentToDate(selectedValue'[END])>>]>>]_vars

====
